---- MODULE Spec2Model ----
(***************************************************************************)
(* The exchange Runner of ep (exchange.go): Gather, Scatter, Broadcast and *)
(* Partition exchanges running on the nodes of a cluster.  Every node runs *)
(* the same exchange: a foreground select loop that sends the local input  *)
(* to the peers, and a receive go-routine that decodes from the peers in a *)
(* round robin and writes to the output channel.                          *)
(***************************************************************************)
EXTENDS Integers, Sequences, FiniteSets, TLC

\* ------------------------------------------------------------------ bounds
\* the number of datasets fed to the nodes of a cluster of one or two
MaxInput == 2
\* the number of steps in which the transport may fail (Connect, Encode,
\* Decode, Close) during one behaviour
MaxFaults == 1
\* the number of datasets fed to the nodes of a cluster of up to three
MaxQuietInput == 3
\* the number of iterations of the select loop, per node, that are counted
\* when they consume nothing
MaxSpins == 1
\* the calls made on the shortCircuit that is used on its own
MaxCalls == 7

\* ------------------------------------------------------------ the cluster
NodeIds == {"A", "B", "C"}
\* the cluster views (ctx allNodesKey) of the specification with failures
Views == {<<"A">>, <<"A", "B">>}
\* the cluster views of the specification without failures
QuietViews == {<<"C">>, <<"B", "A">>, <<"A", "B", "C">>}

\* the indexes an encoder of ex.encs may have
EncIndexes == 0..(Cardinality(NodeIds) - 1)

ExchangeTypes == {"gather", "scatter", "broadcast", "partition"}

\* the context keys init reads: the distributer and the cluster keys
ClusterKeys == {"allNodes", "thisNode", "masterNode"}
ContextKeys == {"distributer"} \cup ClusterKeys

VARIABLES
    exType,       \* ex.Type, the same on every node (the exchange is distributed)
    partitionCol, \* ex.partitionCol
    allNodes,     \* ctx allNodesKey
    masterNode,   \* ctx masterNodeKey
    ctxKeys,      \* the keys the context passed to Run has a value for
    faultsLeft,   \* transport failures the environment may still inject
    inited,       \* ex.inited
    encs,         \* ex.encs: per node, the peers its encoders write to
    decs,         \* ex.decs: per node, the peers its decoders read from
    conns,        \* ex.conns: per node, the peers of its closers
    encsNext,     \* ex.encsNext
    decsNext,     \* ex.decsNext
    hashRing,     \* ex.hashRing: the addresses added to the ring
    encsByKey,    \* ex.encsByKey: address -> index of the encoder in ex.encs
    wire,         \* wire[a][b]: envelopes written by a, not yet read by b
                  \* (a = b: the channel C of a's shortCircuit)
    closeCalls,   \* closeCalls[a][b]: Close calls on a's closer towards b
    connectCalls, \* per node, the addresses Connect was called with
    fg,           \* position of the foreground of Run ("panicked": Run
                  \* ended in a panic)
    rcv,          \* position of the receive go-routine
    held,         \* what the receive go-routine holds: data for out and
                  \* the value it writes to errs
    err,          \* Run's named result err
    sndDone,
    rcvDone,
    result,       \* the value the first Run returned (NotReturned before)
    rerun,        \* the value the last later Run returned (NotReturned before)
    fed,          \* datasets read from inp so far
    toFeed,       \* datasets the upstreams of the cluster may still feed
    ctx,          \* "live", "canceled" or "deadline"
    reading,      \* whether downstream still reads the out channel
    spins,        \* per node, the iterations of the select loop that took
                  \* the zero value from the closed errs channel
    out,          \* the datasets written to the out channel, in order
    encLog,       \* encLog[n][i]: the Encode calls made on the encoder with
                  \* index i of node n, in order
    sc,           \* a shortCircuit used on its own: its channel C (the
                  \* buffer and whether it is closed) and its closed field
    scCalls       \* the calls made on sc, in order, with what they returned

vars == <<exType, partitionCol, allNodes, masterNode, ctxKeys, faultsLeft,
          inited, encs, decs, conns, encsNext, decsNext, hashRing, encsByKey,
          wire, closeCalls, connectCalls, fg, rcv, held, err, sndDone,
          rcvDone, result, rerun, fed, toFeed, ctx, reading, spins, out, encLog,
          sc, scCalls>>

\* ------------------------------------------------------------- utilities
Range(s) == {s[i] : i \in 1..Len(s)}

RemoveAt(s, i) == SubSeq(s, 1, i - 1) \o SubSeq(s, i + 1, Len(s))

\* ---------------------------------------------------------------- errors
Err(kind, at) == [kind |-> kind, at |-> at]
Nil == Err("nil", "")
NotReturned == Err("running", "")
ErrRunTwice == Err("cannot be Run() more than once", "")
ErrNoDistributer == Err("started without a distributer", "")
ErrClosedPipe == Err("io.ErrClosedPipe", "")
ErrDeadline == Err("context.DeadlineExceeded", "")
ErrCanceled == Err("context.Canceled", "")
ErrNoNode == Err("cannot find a target node", "")
ErrNoEncoder == Err("no matching node found", "")
ErrEOF == Err("io.EOF", "")
\* the call did not return: it ended in a run-time panic
Panic == Err("panic", "")

\* -------------------------------------------------------------- datasets
\* A row has two columns and (for the checks only) its origin: the node it
\* was fed to, the number of its dataset there and its index in the dataset.
Row(c0, c1, n, b, i) == [cols |-> <<c0, c1>>, src |-> n, b |-> b, i |-> i]

NodeNo(n) == CASE n = "A" -> 0 [] n = "B" -> 1 [] OTHER -> 2

\* The b-th dataset fed to node n: three rows, the first and the last with
\* the same value in column 0, the first two with the same value in column 1.
InputData(n, b) ==
    LET k == NodeNo(n) + b
    IN  << Row(k, k + 1, n, b, 1), Row(k + 1, k + 1, n, b, 2), Row(k, k + 2, n, b, 3) >>

\* the request envelope: a dataset or the EOF error message
Req(payload) == [eof |-> FALSE, data |-> payload]
EofMsg == [eof |-> TRUE, data |-> <<>>]

\* ------------------------------------------------------- the hash ring
\* consistent.Consistent: every member and every key hashes to a point of a
\* circle; a key belongs to the first member at or after its point,
\* clockwise.  Which member owns a key depends on the set of members only.
NodePoint(n) == CASE n = "A" -> 1 [] n = "B" -> 3 [] OTHER -> 5
KeyPoint(k) == (k * 2 + 6) % 7

RingGet(members, k) ==
    LET after == {m \in members : NodePoint(m) >= KeyPoint(k)}
        from  == IF after = {} THEN members ELSE after
    IN  CHOOSE m \in from : \A o \in from : NodePoint(m) <= NodePoint(o)

\* ------------------------------------------------------- exchange.init
NoEncoder == 0 - 1

InitStart ==
    [encs |-> <<>>, decs |-> <<>>, conns |-> <<>>, ring |-> {},
     byKey |-> [a \in NodeIds |-> NoEncoder], connsMap |-> {}, sc |-> FALSE,
     calls |-> <<>>, err |-> Nil]

\* (mutant) a gather exchange connects to all nodes
TargetNodesAll == allNodes

\* the destinations of node n's exchange
TargetNodes == IF exType = "gather" THEN <<masterNode>> ELSE allNodes

\* what the loop over the target nodes does with a connection to node
AddTarget(st, node) ==
    [st EXCEPT !.conns = Append(@, node),
               !.encs = Append(@, node),
               !.ring = @ \cup {node},
               !.byKey[node] = Len(st.encs)]

\* (mutant) the local node is left out of the hash ring
AddLocalOffRing(st, node) == [AddTarget(st, node) EXCEPT !.ring = st.ring, !.sc = TRUE]

\* the target is this node: a shortCircuit is the connection
AddLocal(st, node) == [AddTarget(st, node) EXCEPT !.sc = TRUE]

\* open a connection to all target nodes, from the i-th on; the failAt-th
\* call of Connect fails
RECURSIVE ConnectTargets(_, _, _, _, _)
ConnectTargets(n, targets, i, st, failAt) ==
    IF i > Len(targets) THEN st
    ELSE LET node == targets[i]
             called == [st EXCEPT !.calls = Append(@, node)]
         IN  IF node = n
             THEN ConnectTargets(n, targets, i + 1, AddLocal(st, node), failAt)
             ELSE IF Len(called.calls) = failAt
             THEN [called EXCEPT !.err = Err("connect", node)]
             ELSE ConnectTargets(n, targets, i + 1,
                                 [AddTarget(called, node) EXCEPT !.connsMap = @ \cup {node}],
                                 failAt)

\* if this node is also a destination, listen to all nodes, from the i-th on
RECURSIVE ConnectSources(_, _, _, _, _)
ConnectSources(n, all, i, st, failAt) ==
    IF ~st.sc \/ i > Len(all) THEN st
    ELSE LET node == all[i]
             called == [st EXCEPT !.calls = Append(@, node)]
         IN  IF node = n \/ node \in st.connsMap
             THEN ConnectSources(n, all, i + 1, [st EXCEPT !.decs = Append(@, node)], failAt)
             ELSE IF Len(called.calls) = failAt
             THEN [called EXCEPT !.err = Err("connect", node)]
             ELSE ConnectSources(n, all, i + 1,
                                 [called EXCEPT !.conns = Append(@, node),
                                                !.decs = Append(@, node)],
                                 failAt)

\* (mutant) the connections to the targets are not kept for re-use
ExInitNoReuse(n, failAt) ==
    LET targets == ConnectTargets(n, TargetNodes, 1, InitStart, failAt)
    IN  IF targets.err # Nil THEN targets
        ELSE ConnectSources(n, allNodes, 1, [targets EXCEPT !.connsMap = {}], failAt)

\* exchange.init on node n, the failAt-th Connect failing (0: none fails)
ExInit(n, failAt) ==
    LET targets == ConnectTargets(n, TargetNodes, 1, InitStart, failAt)
    IN  IF targets.err # Nil THEN targets
        ELSE ConnectSources(n, allNodes, 1, targets, failAt)

\* the number of Connect calls of an init without failure
NumConnects(n) == Len(ExInit(n, 0).calls)

\* (mutant) Close calls Close on no closer
CloseNone(calls, closers) == calls

\* exchange.Close: one more Close call on every closer of conns
CloseAll(calls, closers) ==
    [p \in NodeIds |-> calls[p] + Cardinality({i \in 1..Len(closers) : closers[i] = p})]

\* ------------------------------------------------ encoders and the router
Participants == Range(allNodes)

\* the nodes Run is called on (ctx thisNodeKey): the nodes of the view; with
\* an empty all-nodes list, node A
Runners == IF allNodes = <<>> THEN {"A"} ELSE Participants

\* shortCircuit.closed of node n
ScClosed(n) == closeCalls[n][n] > 0

\* Encode on the encoder with (Go) index i of node n fails: the transport
\* fails (i \in F), or the encoder is the closed shortCircuit
EncodeFails(n, i, F) == i \in F \/ (encs[n][i + 1] = n /\ ScClosed(n))

EncodeErr(n, i) ==
    IF encs[n][i + 1] = n THEN ErrClosedPipe ELSE Err("encode", encs[n][i + 1])

\* the encoders of node n over a network connection
RemoteEncs(n) == {i \in 0..(Len(encs[n]) - 1) : encs[n][i + 1] # n}

\* (mutant) err is the error of the first failed call
RECURSIVE DoEncodesFirstError(_, _, _, _)
DoEncodesFirstError(n, atts, F, st) ==
    IF atts = <<>> THEN st
    ELSE LET a == Head(atts)
             bad == EncodeFails(n, a.i, F)
             peer == encs[n][a.i + 1]
         IN  DoEncodesFirstError(n, Tail(atts), F,
                 [w |-> IF bad THEN st.w ELSE [st.w EXCEPT ![peer] = Append(@, a.env)],
                  log |-> [st.log EXCEPT ![a.i] = Append(@, [env |-> a.env, ok |-> ~bad])],
                  err |-> IF bad /\ st.err = Nil THEN EncodeErr(n, a.i) ELSE st.err])

\* The Encode calls atts (each [i: encoder index, env: envelope]), made in
\* order on node n, starting from st = [w: wire[n], log: encLog[n], err]:
\* a successful Encode appends the envelope to the stream, err is the error
\* of the last failed call.
RECURSIVE DoEncodes(_, _, _, _)
DoEncodes(n, atts, F, st) ==
    IF atts = <<>> THEN st
    ELSE LET a == Head(atts)
             bad == EncodeFails(n, a.i, F)
             peer == encs[n][a.i + 1]
         IN  DoEncodes(n, Tail(atts), F,
                 [w |-> IF bad THEN st.w ELSE [st.w EXCEPT ![peer] = Append(@, a.env)],
                  log |-> [st.log EXCEPT ![a.i] = Append(@, [env |-> a.env, ok |-> ~bad])],
                  err |-> IF bad THEN EncodeErr(n, a.i) ELSE st.err])

EncStart(n) == [w |-> wire[n], log |-> encLog[n], err |-> Nil]

\* encodeAll: Encode e on every encoder in order, return the last error
encodeAllFrom(n, e, F, st) ==
    DoEncodes(n, [k \in 1..Len(encs[n]) |-> [i |-> k - 1, env |-> e]], F,
              [st EXCEPT !.err = Nil])

encodeAll(n, e, F) == encodeAllFrom(n, e, F, EncStart(n))

\* (mutant) the cursor is used before it is advanced
NextEncPostIncrement(n) == encsNext[n] % Len(encs[n])

\* encodeNext: the cursor the call advances to
NextEnc(n) == (encsNext[n] + 1) % Len(encs[n])

\* encodeNext: Encode e on the next encoder in a round robin
encodeNext(n, e, F) ==
    IF Len(encs[n]) = 0
    THEN [EncStart(n) EXCEPT !.err = ErrClosedPipe]
    ELSE DoEncodes(n, << [i |-> NextEnc(n), env |-> e] >>, F, EncStart(n))

\* getPartitionEncoder: the encoder index for a key, or an error
getPartitionEncoder(n, key) ==
    IF hashRing[n] = {} THEN [enc |-> NoEncoder, err |-> ErrNoNode]
    ELSE LET endpoint == RingGet(hashRing[n], key)
         IN  IF encsByKey[n][endpoint] = NoEncoder
             THEN [enc |-> NoEncoder, err |-> ErrNoEncoder]
             ELSE [enc |-> encsByKey[n][endpoint], err |-> Nil]

\* the partition keys of a dataset: the strings of column partitionCol
PartitionKeys(data) == [r \in 1..Len(data) |-> data[r].cols[partitionCol + 1]]

\* the rows r of data with keep[r], in order
RECURSIVE SelectRows(_, _, _)
SelectRows(data, keep, r) ==
    IF r > Len(data) THEN <<>>
    ELSE (IF keep[r] THEN <<data[r]>> ELSE <<>>) \o SelectRows(data, keep, r + 1)

\* (mutant) a row replaces the dataset of its encoder
DataByEncoderLastRow(n, data, enc) ==
    LET ids == PartitionKeys(data)
        rows == {r \in 1..Len(data) : getPartitionEncoder(n, ids[r]).enc = enc}
    IN  IF rows = {} THEN <<>> ELSE <<data[CHOOSE r \in rows : \A q \in rows : q <= r]>>

\* dataByEncoder[enc] of encodePartition
DataByEncoder(n, data, enc) ==
    LET ids == PartitionKeys(data)
    IN  SelectRows(data, [r \in 1..Len(data) |-> getPartitionEncoder(n, ids[r]).enc = enc], 1)

\* the encoders that were assigned rows of data
PartitionEncs(n, data) ==
    {getPartitionEncoder(n, PartitionKeys(data)[r]).enc : r \in 1..Len(data)}

\* the orders in which a range over a map with keys S may visit them
Orders(S) ==
    {o \in [1..Cardinality(S) -> S] : \A x, y \in 1..Cardinality(S) : x # y => o[x] # o[y]}

\* (mutant) the loop over the groups goes on after a failing Encode
UpToTheLast(n, atts, F) == atts

\* the first k elements of s, k being the position of the first failing one
RECURSIVE UpToFirstFailure(_, _, _)
UpToFirstFailure(n, atts, F) ==
    IF atts = <<>> THEN <<>>
    ELSE IF EncodeFails(n, Head(atts).i, F) THEN <<Head(atts)>>
    ELSE <<Head(atts)>> \o UpToFirstFailure(n, Tail(atts), F)

\* encodePartition: group the rows by the encoder of their key, then
\* Encode every group on its encoder, in the order order, up to the first
\* error
encodePartition(n, data, F, order) ==
    LET ids == PartitionKeys(data)
        bad == {r \in 1..Len(data) : getPartitionEncoder(n, ids[r]).err # Nil}
        first == CHOOSE r \in bad : \A q \in bad : r <= q
        atts == [k \in 1..Len(order) |->
                    [i |-> order[k], env |-> Req(DataByEncoder(n, data, order[k]))]]
    IN  IF bad # {}
        THEN [EncStart(n) EXCEPT !.err = getPartitionEncoder(n, ids[first]).err]
        ELSE DoEncodes(n, UpToFirstFailure(n, atts, F), F, EncStart(n))

\* the orders encodePartition may send the groups of data in
PartitionOrders(n, data) ==
    IF \E r \in 1..Len(data) : getPartitionEncoder(n, PartitionKeys(data)[r]).err # Nil
    THEN {<<>>}
    ELSE Orders(PartitionEncs(n, data))

\* (mutant) a broadcast exchange encodes on the next encoder only
sendToNext(n, data, F, order) ==
    CASE exType = "partition" -> encodePartition(n, data, F, order)
      [] OTHER -> encodeNext(n, Req(data), F)

\* send: dispatch on the exchange type
send(n, data, F, order) ==
    CASE exType = "scatter" -> encodeNext(n, Req(data), F)
      [] exType = "partition" -> encodePartition(n, data, F, order)
      [] OTHER -> encodeAll(n, Req(data), F)

\* the value of encsNext after send
CursorAfterSend(n) ==
    IF exType = "scatter" /\ Len(encs[n]) > 0 THEN NextEnc(n) ELSE encsNext[n]

\* ------------------------------------------------------- the shortCircuit
\* make(chan interface{}, 1000): the capacity of the channel
ChanCap == 1000

\* newShortCircuit: an open, empty channel; closed is false
newShortCircuit == [C |-> [buf |-> <<>>, closed |-> FALSE], closed |-> FALSE]

\* what a call that carries no envelope is recorded with
NoEnvelope == [eof |-> FALSE, data |-> <<>>]

\* ------------------------------------------------------------ the start
\* the exchanges just constructed on the nodes, before any Run
Constructed ==
    /\ exType \in ExchangeTypes
    /\ partitionCol \in (IF exType = "partition" THEN {0, 1} ELSE {0})
    /\ masterNode \in (IF allNodes = <<>> THEN {"A"}
                        ELSE IF exType = "gather" THEN Range(allNodes) ELSE {allNodes[1]})
    /\ inited = [n \in NodeIds |-> FALSE]
    /\ encs = [n \in NodeIds |-> <<>>]
    /\ decs = [n \in NodeIds |-> <<>>]
    /\ conns = [n \in NodeIds |-> <<>>]
    /\ encsNext = [n \in NodeIds |-> 0]
    /\ decsNext = [n \in NodeIds |-> 0]
    /\ hashRing = [n \in NodeIds |-> {}]
    /\ encsByKey = [n \in NodeIds |-> [a \in NodeIds |-> NoEncoder]]
    /\ wire = [a \in NodeIds |-> [b \in NodeIds |-> <<>>]]
    /\ closeCalls = [a \in NodeIds |-> [b \in NodeIds |-> 0]]
    /\ connectCalls = [n \in NodeIds |-> <<>>]
    /\ fg = [n \in NodeIds |-> "idle"]
    /\ rcv = [n \in NodeIds |-> "off"]
    /\ held = [n \in NodeIds |-> [data |-> <<>>, err |-> Nil]]
    /\ err = [n \in NodeIds |-> Nil]
    /\ sndDone = [n \in NodeIds |-> FALSE]
    /\ rcvDone = [n \in NodeIds |-> FALSE]
    /\ result = [n \in NodeIds |-> NotReturned]
    /\ rerun = [n \in NodeIds |-> NotReturned]
    /\ fed = [n \in NodeIds |-> 0]
    /\ ctx = [n \in NodeIds |-> "live"]
    /\ reading = [n \in NodeIds |-> TRUE]
    /\ spins = [n \in NodeIds |-> 0]
    /\ out = [n \in NodeIds |-> <<>>]
    /\ encLog = [n \in NodeIds |-> [i \in EncIndexes |-> <<>>]]
    /\ sc = newShortCircuit
    /\ scCalls = <<>>

Init ==
    /\ allNodes \in Views
    /\ ctxKeys = ContextKeys
    /\ faultsLeft = MaxFaults
    /\ toFeed = MaxInput
    /\ Constructed

\* clusters of one or two nodes whose transport does not fail
CalmInit ==
    /\ allNodes \in Views
    /\ ctxKeys = ContextKeys
    /\ faultsLeft = 0
    /\ toFeed = MaxInput
    /\ Constructed

\* clusters of up to three nodes whose transport does not fail
QuietInit ==
    /\ allNodes \in QuietViews
    /\ ctxKeys = ContextKeys
    /\ faultsLeft = 0
    /\ toFeed = MaxQuietInput
    /\ Constructed

\* a cluster of three nodes whose transport may fail, fed one dataset
FailingInit ==
    /\ allNodes = <<"A", "B", "C">>
    /\ ctxKeys = ContextKeys
    /\ faultsLeft = MaxFaults
    /\ toFeed = 1
    /\ Constructed

\* partition exchanges whose transport may fail: on two nodes, and on a
\* node whose all-nodes list is empty
PartitionInit ==
    /\ allNodes \in {<<>>, <<"A", "B">>}
    /\ exType = "partition"
    /\ ctxKeys = ContextKeys
    /\ faultsLeft = MaxFaults
    /\ toFeed = MaxInput
    /\ Constructed

\* clusters of one or two nodes whose transport does not fail, started with
\* a context that may lack the distributer or cluster keys
ConfigInit ==
    /\ allNodes \in Views
    /\ ctxKeys \in SUBSET ContextKeys
    /\ faultsLeft = 0
    /\ toFeed = MaxInput
    /\ Constructed

cluster == <<exType, partitionCol, allNodes, masterNode, ctxKeys>>
feed == <<fed, toFeed>>
tables == <<encs, conns, hashRing, encsByKey, connectCalls>>
circuit == <<sc, scCalls>>

\* the sets of encoders on which the transport may fail during one step
FaultSets(n) == IF faultsLeft > 0 THEN SUBSET RemoteEncs(n) ELSE {{}}

\* a step with the failures F uses up one of the failures left
UseFault(F) == faultsLeft' = IF F = {} THEN faultsLeft ELSE faultsLeft - 1

\* --------------------------------------------------------- exchange.Run
\* whether a call of Run finds the exchange inited, and what it leaves
AlreadyRun(n) == inited[n]

\* (mutant) Run leaves ex.inited as it is
MarkInitedNot(n) == inited

MarkInited(n) == [inited EXCEPT ![n] = TRUE]

\* (mutant) decodeNext returns io.EOF with one decoder left
ReceiveOnButOne(ds) == IF Len(ds) <= 1 THEN "errs" ELSE "receive"

\* the receive go-routine with the decoders ds: without decoders decodeNext
\* returns io.EOF, and the go-routine writes nil to errs
ReceiveOn(ds) == IF ds = <<>> THEN "errs" ELSE "receive"

\* what init finds in the context: without a distributer it returns an
\* error; the cluster keys are read with unchecked type assertions, which
\* panic on a key without value
ContextCheck ==
    IF "distributer" \notin ctxKeys THEN "error"
    ELSE IF ~(ClusterKeys \subseteq ctxKeys) THEN "panic"
    ELSE "ok"

\* Run is called on node n: a Run that finds the exchange inited returns
\* the error; the first Run runs init, and on an init error closes the
\* connections (in init and again in its own deferred Close) and returns.
\* A panic in init runs the deferred Close of Run and goes on to the caller:
\* Run returns nothing.
Run(n) ==
    /\ n \in Runners
    /\ fg[n] \in {"idle", "returned"}
    /\ IF AlreadyRun(n)
       THEN /\ rerun' = [rerun EXCEPT ![n] = ErrRunTwice]
            /\ UNCHANGED <<cluster, circuit, spins, tables, faultsLeft, inited, decs, encsNext, decsNext,
                           wire, closeCalls, fg, rcv, held, err, sndDone, rcvDone,
                           result, feed, ctx, reading, out, encLog>>
       ELSE IF ContextCheck # "ok"
       THEN /\ inited' = MarkInited(n)
            /\ IF ContextCheck = "error"
               THEN /\ err' = [err EXCEPT ![n] = ErrNoDistributer]
                    /\ result' = [result EXCEPT ![n] = ErrNoDistributer]
                    /\ fg' = [fg EXCEPT ![n] = "returned"]
               ELSE /\ fg' = [fg EXCEPT ![n] = "panicked"]
                    /\ UNCHANGED <<err, result>>
            /\ UNCHANGED <<cluster, circuit, spins, tables, faultsLeft, decs, encsNext, decsNext,
                           wire, closeCalls, rcv, held, sndDone, rcvDone,
                           rerun, feed, ctx, reading, out, encLog>>
       ELSE \E failAt \in 0..NumConnects(n) :
            LET st == ExInit(n, failAt)
            IN  /\ failAt > 0 => faultsLeft > 0
                /\ faultsLeft' = IF failAt > 0 THEN faultsLeft - 1 ELSE faultsLeft
                /\ inited' = MarkInited(n)
                /\ encs' = [encs EXCEPT ![n] = st.encs]
                /\ decs' = [decs EXCEPT ![n] = st.decs]
                /\ conns' = [conns EXCEPT ![n] = st.conns]
                /\ hashRing' = [hashRing EXCEPT ![n] = st.ring]
                /\ encsByKey' = [encsByKey EXCEPT ![n] = st.byKey]
                /\ connectCalls' = [connectCalls EXCEPT ![n] = st.calls]
                /\ err' = [err EXCEPT ![n] = st.err]
                /\ IF st.err # Nil
                   THEN /\ closeCalls' = [closeCalls EXCEPT
                               ![n] = CloseAll(CloseAll(@, st.conns), st.conns)]
                        /\ result' = [result EXCEPT ![n] = st.err]
                        /\ fg' = [fg EXCEPT ![n] = "returned"]
                        /\ UNCHANGED rcv
                   ELSE /\ fg' = [fg EXCEPT ![n] = "select"]
                        /\ rcv' = [rcv EXCEPT ![n] = ReceiveOn(st.decs)]
                        /\ UNCHANGED <<closeCalls, result>>
                /\ sndDone' = [sndDone EXCEPT ![n] = FALSE]
                /\ rcvDone' = [rcvDone EXCEPT ![n] = FALSE]
                /\ UNCHANGED <<cluster, circuit, spins, encsNext, decsNext, wire, held, rerun,
                               feed, ctx, reading, out, encLog>>

\* the loop condition of the select loop
LoopGoesOn(e, rDone, sDone) == e = Nil /\ (~rDone \/ ~sDone)

\* (mutant) the deferred function sends EOF whether or not send is done
NeedsEOFAlways(sDone) == TRUE

\* whether the deferred function has to send EOF to the peers
NeedsEOF(sDone) == ~sDone

\* The end of an iteration of the select loop that leaves the streams and
\* the log as in st: the loop goes on, or it ends and the deferred function
\* sends EOF to all peers unless send is done, and then drains errs.
EndIteration(n, st, e, rDone, sDone, F) ==
    LET goesOn == LoopGoesOn(e, rDone, sDone)
        left == IF ~goesOn /\ NeedsEOF(sDone) THEN encodeAllFrom(n, EofMsg, F, st) ELSE st
    IN  /\ wire' = [wire EXCEPT ![n] = left.w]
        /\ encLog' = [encLog EXCEPT ![n] = left.log]
        /\ err' = [err EXCEPT ![n] = e]
        /\ rcvDone' = [rcvDone EXCEPT ![n] = rDone]
        /\ sndDone' = [sndDone EXCEPT ![n] = sDone]
        /\ fg' = [fg EXCEPT ![n] = IF goesOn THEN "select" ELSE "drain"]
        /\ UseFault(IF left.log = encLog[n] THEN {} ELSE F)

\* case data, ok := <-inp, ok: send the dataset
SelectInput(n) ==
    /\ fg[n] = "select" /\ ~sndDone[n]
    /\ toFeed > 0
    /\ toFeed' = toFeed - 1
    /\ LET data == InputData(n, fed[n] + 1)
       IN  \E F \in FaultSets(n) :
           \E order \in (IF exType = "partition" THEN PartitionOrders(n, data) ELSE {<<>>}) :
           LET r == send(n, data, F, order)
           IN  EndIteration(n, r, r.err, rcvDone[n], sndDone[n], F)
    /\ encsNext' = [encsNext EXCEPT ![n] = CursorAfterSend(n)]
    /\ fed' = [fed EXCEPT ![n] = @ + 1]
    /\ UNCHANGED <<cluster, circuit, spins, tables, inited, decs, decsNext, closeCalls, rcv, held,
                   result, rerun, ctx, reading, out>>

\* case data, ok := <-inp, !ok: the upstream has closed inp (which it may
\* do after any number of datasets); notify the peers
SelectInputClosed(n) ==
    /\ fg[n] = "select" /\ ~sndDone[n]
    /\ \E F \in FaultSets(n) :
       EndIteration(n, encodeAll(n, EofMsg, F), err[n], rcvDone[n], TRUE, F)
    /\ UNCHANGED <<cluster, circuit, spins, tables, inited, decs, encsNext, decsNext, closeCalls, rcv,
                   held, result, rerun, feed, ctx, reading, out>>

\* case err = <-errs: the value the receive go-routine writes to errs
SelectErrs(n) ==
    /\ fg[n] = "select"
    /\ rcv[n] = "errs"
    /\ rcv' = [rcv EXCEPT ![n] = "done"]
    /\ \E F \in FaultSets(n) :
       EndIteration(n, EncStart(n), held[n].err, TRUE, sndDone[n], F)
    /\ UNCHANGED <<cluster, circuit, spins, tables, inited, decs, encsNext, decsNext,
                   closeCalls, held, result, rerun, feed, ctx, reading, out>>

\* case err = <-errs, after the receive go-routine has closed errs: the
\* receive does not block and yields the zero value, nil
SelectErrsClosed(n) ==
    /\ fg[n] = "select"
    /\ rcv[n] = "done"
    /\ spins[n] < MaxSpins
    /\ spins' = [spins EXCEPT ![n] = @ + 1]
    /\ EndIteration(n, EncStart(n), Nil, TRUE, sndDone[n], {})
    /\ UNCHANGED <<cluster, circuit, tables, inited, decs, encsNext, decsNext, rcv,
                   closeCalls, held, result, rerun, feed, ctx, reading, out>>

\* (mutant) the select returns ctx.Err() also when canceled
CtxResultErr(how) == IF how = "canceled" THEN ErrCanceled ELSE ErrDeadline

\* what Run's err becomes when the select finds the context done
CtxResult(how) == IF how = "canceled" THEN Nil ELSE ErrDeadline

\* case <-ctx.Done(): the context is canceled or its deadline passes (which
\* may happen at any time), and the select takes this case; Run returns nil
\* or leaves the loop with the error
SelectCtx(n) ==
    /\ fg[n] = "select"
    /\ ctx[n] = "live"
    /\ \E how \in {"canceled", "deadline"} :
       /\ ctx' = [ctx EXCEPT ![n] = how]
       /\ \E F \in FaultSets(n) :
          LET left == IF NeedsEOF(sndDone[n])
                      THEN encodeAllFrom(n, EofMsg, F, EncStart(n)) ELSE EncStart(n)
          IN  /\ wire' = [wire EXCEPT ![n] = left.w]
              /\ encLog' = [encLog EXCEPT ![n] = left.log]
              /\ UseFault(IF NeedsEOF(sndDone[n]) THEN F ELSE {})
       /\ err' = [err EXCEPT ![n] = CtxResult(how)]
    /\ fg' = [fg EXCEPT ![n] = "drain"]
    /\ UNCHANGED <<cluster, circuit, spins, tables, inited, decs, encsNext, decsNext,
                   closeCalls, rcv, held, sndDone, rcvDone, result, rerun, feed,
                   reading, out>>

\* for range errs: a value the receive go-routine writes is dropped
DrainErrs(n) ==
    /\ fg[n] = "drain"
    /\ rcv[n] = "errs"
    /\ rcv' = [rcv EXCEPT ![n] = "done"]
    /\ UNCHANGED <<cluster, circuit, spins, tables, faultsLeft, inited, decs, encsNext, decsNext, wire,
                   closeCalls, fg, held, err, sndDone, rcvDone, result, rerun, feed,
                   ctx, reading, out, encLog>>

\* the closers of node n over a network connection
RemoteConns(n) == {i \in 1..Len(conns[n]) : conns[n][i] # n}

\* exchange.Close: the error of the last closer that failed
CloseErr(n, C) ==
    IF C = {} THEN Nil
    ELSE Err("close", conns[n][CHOOSE i \in C : \A j \in C : j <= i])

\* (mutant) the close error is preferred over an existing error
FinalErrOfClose(e, closeErr) == IF closeErr # Nil THEN closeErr ELSE e

\* prefer real existing error over close error
FinalErr(e, closeErr) == IF e = Nil THEN closeErr ELSE e

\* (mutant) the deferred function takes one value from errs and goes on
DrainedByOneValue(n) == rcv[n] \in {"errs", "done"}

\* (mutant) the deferred function does not wait for errs to be closed
DrainedAnyway(n) == TRUE

\* whether the foreground may go on to Close: errs has been closed
Drained(n) == rcv[n] = "done"

\* errs is closed: the deferred Close runs and Run returns
Return(n) ==
    /\ fg[n] = "drain"
    /\ Drained(n)
    /\ \E C \in (IF faultsLeft > 0 THEN SUBSET RemoteConns(n) ELSE {{}}) :
       /\ UseFault(C)
       /\ result' = [result EXCEPT ![n] = FinalErr(err[n], CloseErr(n, C))]
    /\ closeCalls' = [closeCalls EXCEPT ![n] = CloseAll(@, conns[n])]
    /\ fg' = [fg EXCEPT ![n] = "returned"]
    /\ UNCHANGED <<cluster, circuit, spins, tables, inited, decs, encsNext, decsNext, wire, rcv, held,
                   err, sndDone, rcvDone, rerun, feed, ctx, reading, out, encLog>>

\* ------------------------------------------------ the receive go-routine
\* decodeNext: the (Go) index of the decoder tried next
NextDec(n) == (decsNext[n] + 1) % Len(decs[n])

\* whether the stream from s to n has ended: s closed its end of the
\* connection (the shortCircuit: its channel was closed)
StreamEnded(s, n) == closeCalls[s][n] > 0

\* (mutant) no payload is taken for the EOF error message
isEOFErrorNever(m) == FALSE

\* isEOFError: the payload is the EOF error message
isEOFError(m) == m.eof

\* whether downstream may have stopped reading out: only once the context
\* of the node is done
MayStopReading(n) == IF ctx[n] = "live" THEN {FALSE} ELSE {FALSE, TRUE}

\* One Decode call of decodeNext in the receive go-routine, on the next
\* decoder in the round robin.  A dataset is written to the out channel,
\* which blocks for ever if downstream has stopped reading.  On EOF (the
\* EOF message, or the end of the stream) the decoder is removed and
\* decodeNext tries again: without decoders left it returns io.EOF, and the
\* go-routine writes nil to errs.  Another error is written to errs.
Decode(n) ==
    /\ rcv[n] = "receive"
    /\ LET i == NextDec(n)
           s == decs[n][i + 1]
       IN  \/ /\ wire[s][n] # <<>>
              /\ ~isEOFError(Head(wire[s][n]))
              /\ wire' = [wire EXCEPT ![s][n] = Tail(@)]
              /\ decsNext' = [decsNext EXCEPT ![n] = i]
              /\ \E stopped \in MayStopReading(n) :
                 IF stopped
                 THEN /\ reading' = [reading EXCEPT ![n] = FALSE]
                      /\ held' = [held EXCEPT ![n] =
                                     [data |-> Head(wire[s][n]).data, err |-> Nil]]
                      /\ rcv' = [rcv EXCEPT ![n] = "out"]
                      /\ UNCHANGED out
                 ELSE /\ out' = [out EXCEPT ![n] = Append(@, Head(wire[s][n]).data)]
                      /\ UNCHANGED <<reading, held, rcv>>
              /\ UNCHANGED <<decs, faultsLeft>>
           \/ /\ \/ wire[s][n] # <<>> /\ isEOFError(Head(wire[s][n]))
                 \/ wire[s][n] = <<>> /\ StreamEnded(s, n)
              /\ wire' = [wire EXCEPT ![s][n] = IF @ = <<>> THEN @ ELSE Tail(@)]
              /\ decs' = [decs EXCEPT ![n] = RemoveAt(@, i + 1)]
              /\ rcv' = [rcv EXCEPT ![n] = ReceiveOn(decs'[n])]
              /\ held' = [held EXCEPT ![n] = [data |-> <<>>, err |-> Nil]]
              /\ UNCHANGED <<decsNext, faultsLeft, reading, out>>
           \/ /\ s # n
              /\ faultsLeft > 0
              /\ faultsLeft' = faultsLeft - 1
              /\ held' = [held EXCEPT ![n] = [data |-> <<>>, err |-> Err("decode", s)]]
              /\ rcv' = [rcv EXCEPT ![n] = "errs"]
              /\ UNCHANGED <<decs, decsNext, wire, reading, out>>
    /\ UNCHANGED <<cluster, circuit, spins, tables, inited, encsNext, closeCalls, fg, err, sndDone,
                   rcvDone, result, rerun, feed, toFeed, ctx, encLog>>

\* ---------------------------------------- the shortCircuit, its methods
\* (mutant) Close without the check of sc.closed
scCloseUnguarded(s) ==
    IF s.C.closed
        THEN [sc |-> [s EXCEPT !.closed = TRUE], ret |-> Panic]
        ELSE [sc |-> [s EXCEPT !.closed = TRUE, !.C.closed = TRUE], ret |-> Nil]

\* shortCircuit.Close: nothing when sc.closed is set; otherwise it sets
\* sc.closed and closes the channel (closing a closed channel panics)
scClose(s) ==
    IF s.closed
        THEN [sc |-> s, ret |-> Nil]
        ELSE IF s.C.closed
            THEN [sc |-> [s EXCEPT !.closed = TRUE], ret |-> Panic]
            ELSE [sc |-> [s EXCEPT !.closed = TRUE, !.C.closed = TRUE],
                  ret |-> Nil]

\* shortCircuit.Encode blocks: the send finds the buffer of the channel full
scEncodeBlocks(s) == ~s.closed /\ ~s.C.closed /\ Len(s.C.buf) >= ChanCap

\* shortCircuit.Encode: io.ErrClosedPipe when sc.closed is set; otherwise
\* it sends e on the channel (a send on a closed channel panics)
scEncode(s, e) ==
    IF s.closed
        THEN [sc |-> s, ret |-> ErrClosedPipe]
        ELSE IF s.C.closed
            THEN [sc |-> s, ret |-> Panic]
            ELSE [sc |-> [s EXCEPT !.C.buf = Append(@, e)], ret |-> Nil]

\* shortCircuit.Decode blocks: the channel is open and its buffer is empty
scDecodeBlocks(s) == s.C.buf = <<>> /\ ~s.C.closed

\* shortCircuit.Decode: it receives from the channel (v, ok := <-sc.C; ok is
\* false when the channel is closed and drained) and returns io.EOF when ok
\* is false or v is the EOF message; otherwise it hands v out
scDecode(s) ==
    LET ok == s.C.buf # <<>>
        rest == IF ok THEN [s EXCEPT !.C.buf = Tail(@)] ELSE s
    IN  IF ~ok \/ isEOFError(s.C.buf[1])
            THEN [sc |-> rest, ret |-> ErrEOF, got |-> NoEnvelope]
            ELSE [sc |-> rest, ret |-> Nil, got |-> s.C.buf[1]]

\* the envelopes handed to Encode: two datasets and the EOF message
Envelopes == {Req(InputData("A", b)) : b \in {0, 1}} \cup {EofMsg}

\* everything but the shortCircuit used on its own
exchanges == <<exType, partitionCol, allNodes, masterNode, ctxKeys, faultsLeft,
               inited, encs, decs, conns, encsNext, decsNext, hashRing,
               encsByKey, wire, closeCalls, connectCalls, fg, rcv, held, err,
               sndDone, rcvDone, result, rerun, fed, toFeed, ctx, reading,
               spins, out, encLog>>

\* a call on sc ended in a panic: the program is gone
Panicked == \E j \in DOMAIN scCalls : scCalls[j].ret = Panic

CanCall == Len(scCalls) < MaxCalls /\ ~Panicked

Called(op, env, r) ==
    /\ sc' = r.sc
    /\ scCalls' = Append(scCalls, [op |-> op, env |-> env, ret |-> r.ret,
                                   got |-> IF op = "Decode" THEN r.got
                                           ELSE NoEnvelope])
    /\ UNCHANGED exchanges

CircuitClose == CanCall /\ Called("Close", NoEnvelope, scClose(sc))

CircuitEncode(e) ==
    /\ CanCall
    /\ ~scEncodeBlocks(sc)
    /\ Called("Encode", e, scEncode(sc, e))

CircuitDecode ==
    /\ CanCall
    /\ ~scDecodeBlocks(sc)
    /\ Called("Decode", NoEnvelope, scDecode(sc))

\* ------------------------------------------------------ specifications
\* a step of node n
Step(n) ==
    \/ Run(n)
    \/ SelectInput(n)
    \/ SelectInputClosed(n)
    \/ SelectErrs(n)
    \/ SelectCtx(n)
    \/ DrainErrs(n)
    \/ Return(n)
    \/ Decode(n)

Next == \E n \in NodeIds : Step(n)

Spec == Init /\ [][Next]_vars

\* a step of node n while no context ends
QuietStep(n) ==
    \/ Run(n)
    \/ SelectInput(n)
    \/ SelectInputClosed(n)
    \/ SelectErrs(n)
    \/ Return(n)
    \/ Decode(n)

QuietNext == \E n \in NodeIds : QuietStep(n)

\* up to three nodes, no transport failure and no context ending
QuietSpec == QuietInit /\ [][QuietNext]_vars

\* The transport does not fail, the go-routines of a node are scheduled
\* fairly, and Run is called on every node.  Nothing makes the upstream
\* feed or close inp, or the context end.
Fairness ==
    \A n \in NodeIds :
        /\ WF_vars(Run(n))
        /\ WF_vars(SelectErrs(n))
        /\ WF_vars(DrainErrs(n))
        /\ WF_vars(Return(n))
        /\ WF_vars(Decode(n))

FairSpec == CalmInit /\ [][Next]_vars /\ Fairness

\* three nodes, transport failures and no context ending
FailingSpec == FailingInit /\ [][QuietNext]_vars

\* partition exchanges with transport failures and no context ending
PartitionSpec == PartitionInit /\ [][QuietNext]_vars

\* The select loop also receives from errs once it is closed.  Such a step
\* changes spins only: to every other variable it is a stuttering step,
\* which is why Step leaves it out.
SpinNext == \E n \in NodeIds : Step(n) \/ SelectErrsClosed(n)

SpinSpec == CalmInit /\ [][SpinNext]_vars

\* Run with a context that may lack the distributer or cluster keys
ConfigSpec == ConfigInit /\ [][Next]_vars

\* a shortCircuit on its own: Encode, Decode and Close are called on it in
\* any order
CircuitInit ==
    /\ allNodes = <<>>
    /\ exType = "gather"
    /\ ctxKeys = ContextKeys
    /\ faultsLeft = 0
    /\ toFeed = 0
    /\ Constructed

CircuitNext ==
    \/ CircuitClose
    \/ CircuitDecode
    \/ \E e \in Envelopes : CircuitEncode(e)

CircuitSpec == CircuitInit /\ [][CircuitNext]_vars

\* ------------------------------------------------------------- claims
\* every closer of node n has been closed
AllClosed(n) == \A i \in 1..Len(conns[n]) : closeCalls[n][conns[n][i]] > 0

\* the transport has failed
Faulted == faultsLeft < MaxFaults

\* a context has ended
CtxEnded == \E n \in NodeIds : ctx[n] # "live"

\* every node has found its inp closed
InputsClosed == \A n \in Participants : sndDone[n]

ReturnedNil(n) == fg[n] = "returned" /\ result[n] = Nil

AllReturnedNil == \A n \in Participants : ReturnedNil(n) /\ AllClosed(n)

\* the data envelopes among the Encode calls on encoder i of node n
DataSent(n, i) == SelectSeq(encLog[n][i], LAMBDA c : ~c.env.eof)

\* C1: without transport failure (FairSpec has none) and without a context
\* ending, once every node has found its input closed, Run returns nil on
\* every node, with every connection of its closer list closed.
C1_CleanTermination == InputsClosed ~> (AllReturnedNil \/ CtxEnded)

\* C1 witness: two nodes exchanged data and returned nil, undisturbed
C1_Witness ==
    /\ Len(allNodes) = 2 /\ InputsClosed /\ AllReturnedNil /\ ~CtxEnded
    /\ \A n \in Participants : out[n] # <<>>

\* C2: once the first Run has returned (completed, failed in init or
\* canceled), a step of the node changes neither its encoders, decoders and
\* closers nor its Connect, Encode and Close calls, starts no go-routine,
\* and a later Run returns the "cannot be Run() more than once" error.
C2_RunOnce ==
    [][\A n \in NodeIds :
          fg[n] = "returned" =>
              /\ fg'[n] = "returned" /\ rcv'[n] = rcv[n]
              /\ encs'[n] = encs[n] /\ decs'[n] = decs[n] /\ conns'[n] = conns[n]
              /\ connectCalls'[n] = connectCalls[n]
              /\ closeCalls'[n] = closeCalls[n]
              /\ encLog'[n] = encLog[n]
              /\ result'[n] = result[n]
              /\ rerun'[n] \in {rerun[n], ErrRunTwice}]_vars

\* C2 witness: a second Run has returned the error after a Run that
\* returned nil, and on another node after a Run that failed in init
C2_Witness ==
    \E n, m \in Participants :
        /\ rerun[n] = ErrRunTwice /\ result[n] = Nil /\ connectCalls[n] # <<>>
        /\ rerun[m] = ErrRunTwice /\ result[m].kind = "connect"

\* C3 as claimed: a Run whose select found the context canceled returns nil
C3_CancelAlwaysNil ==
    \A n \in NodeIds : ctx[n] = "canceled" /\ fg[n] = "returned" => result[n] = Nil

\* C3 amended: a Run whose select found the context canceled returns nil or
\* the error of the deferred Close, whatever the Encode calls of the EOF
\* broadcast returned
C3_CancelNilOrCloseError ==
    \A n \in NodeIds :
        ctx[n] = "canceled" /\ fg[n] = "returned" =>
            result[n] = Nil \/ result[n].kind = "close"

\* C3 witness: a canceled Run returned nil although an Encode of its EOF
\* broadcast failed
C3_Witness ==
    \E n \in Participants :
        /\ ctx[n] = "canceled" /\ ReturnedNil(n)
        /\ \E i \in EncIndexes : \E k \in 1..Len(encLog[n][i]) :
              encLog[n][i][k].env.eof /\ ~encLog[n][i][k].ok

\* the context of every node was canceled while its Run was in the select
AllCanceled == \A n \in Participants : ctx[n] = "canceled"

\* Run returned nil on node n, its receive go-routine has ended and its
\* connections are closed
CleanlyStopped(n) == ReturnedNil(n) /\ rcv[n] = "done" /\ AllClosed(n)

\* C4: once the context is canceled mid-run on every node, every Run
\* returns nil with its receive go-routine ended and its connections
\* closed, whether or not downstream still reads the out channel.
C4_CancellationSafety == AllCanceled ~> (\A n \in Participants : CleanlyStopped(n))

\* C4 holds of the behaviours in which downstream keeps reading
C4_WhileReading ==
    AllCanceled ~> ((\A n \in Participants : CleanlyStopped(n)) \/ \E n \in NodeIds : ~reading[n])

\* the nodes of the clusters with failures
ViewNodes == UNION {Range(v) : v \in Views}

\* the context was canceled on node a only, of the two nodes a and b
CanceledOnly(a, b) ==
    /\ Participants = {a, b} /\ a # b
    /\ ctx[a] = "canceled" /\ ctx[b] = "live"

\* the select loop of node b is running and has not found inp closed
StillSending(b) == fg[b] = "select" /\ ~sndDone[b]

\* node b has sent EOF to its peers, or is about to in its deferred function
SentEOF(b) == sndDone[b] \/ fg[b] \in {"drain", "returned"}

StoppedReading == \E n \in NodeIds : ~reading[n]

\* C5 as claimed: the context canceled on A only while B still has input to
\* send, Run returns nil on A and on B and their connections are closed
\* (unless B's context ends too or downstream stops reading).
C5_SingleNodeCancel ==
    \A a, b \in ViewNodes :
        (CanceledOnly(a, b) /\ StillSending(b))
            ~> \/ CleanlyStopped(a) /\ CleanlyStopped(b)
               \/ ctx[b] # "live" \/ StoppedReading

\* C5 amended: A's Run returns only when each of its decoders has reported
\* EOF, so not while a peer it decodes from still has input to send; B's
\* Run returns only when its own input has closed; a Run that returned has
\* closed its connections; and once B's input has closed too, Run returns
\* nil on A and on B (unless B's context ends or downstream stops reading).
C5_CancelWaitsForPeerInput ==
    /\ [](\A a, b \in ViewNodes :
            CanceledOnly(a, b) =>
                /\ fg[a] = "returned" =>
                      /\ decs[a] = <<>> /\ AllClosed(a)
                      /\ b \in Range(ExInit(a, 0).decs) => SentEOF(b)
                /\ fg[b] = "returned" => sndDone[b] /\ decs[b] = <<>> /\ AllClosed(b))
    /\ \A a, b \in ViewNodes :
          (CanceledOnly(a, b) /\ sndDone[b])
              ~> \/ CleanlyStopped(a) /\ CleanlyStopped(b)
                 \/ ctx[b] # "live" \/ StoppedReading

\* C5 witness: canceled on A only, B sent a dataset that A wrote to out
\* before B's input closed, and both Runs returned nil
C5_Witness ==
    \E a, b \in ViewNodes :
        /\ CanceledOnly(a, b) /\ CleanlyStopped(a) /\ CleanlyStopped(b)
        /\ fed[b] > 0 /\ fed[a] = 0 /\ out[a] # <<>>

\* the positions of the EOF envelope among the Encode calls on an encoder
EofCalls(n, i) == {k \in 1..Len(encLog[n][i]) : encLog[n][i][k].env.eof}

\* Run completed init on node n and has returned
ReturnedAfterInit(n) == fg[n] = "returned" /\ rcv[n] # "off"

\* C6: a Run that completed init and returned has called Encode with the
\* EOF envelope exactly once on each of its encoders, and that call is the
\* last Encode call on the encoder: no dataset follows the EOF envelope.
C6_EofExactlyOnce ==
    \A n \in NodeIds :
        ReturnedAfterInit(n) =>
            \A i \in 0..(Len(encs[n]) - 1) : EofCalls(n, i) = {Len(encLog[n][i])}

\* while Run is running, no Encode call follows an EOF envelope either
C6_NothingAfterEof ==
    \A n \in NodeIds : \A i \in EncIndexes : \A k \in EofCalls(n, i) : k = Len(encLog[n][i])

\* C6 witness: a Run whose input was not closed (its context ended or it
\* failed) has returned after sending a dataset and then the EOF envelope
\* from its deferred function
C6_Witness ==
    \E n \in Participants :
        /\ ReturnedAfterInit(n) /\ ~sndDone[n] /\ Len(encs[n]) = 2
        /\ \A i \in 0..1 : Len(encLog[n][i]) = 2 /\ EofCalls(n, i) = {2}

\* the datasets encoded on encoder i of node n, in the order of the calls
BatchesOn(n, i) == [k \in 1..Len(DataSent(n, i)) |-> DataSent(n, i)[k].env.data]

\* C7: in a scatter exchange with N >= 1 encoders and no encode failure,
\* the j-th dataset passed to send is encoded on encoder index j mod N and on
\* no other encoder, and after B sends every encoder has received floor(B/N)
\* or ceil(B/N) datasets.
C7_ScatterRoundRobin ==
    exType = "scatter" =>
        \A n \in Participants :
            LET N == Len(encs[n])
            IN  N >= 1 =>
                /\ \A j \in 1..fed[n] : \A i \in 0..(N - 1) :
                       InputData(n, j) \in Range(BatchesOn(n, i)) <=> i = j % N
                /\ \A i \in 0..(N - 1) :
                       Len(BatchesOn(n, i)) \in {fed[n] \div N, (fed[n] + N - 1) \div N}

\* C7 witness: a node with three encoders has sent three datasets, the cursor
\* has wrapped around to index 0, and each encoder holds one dataset
C7_Witness ==
    /\ exType = "scatter"
    /\ \E n \in Participants :
           /\ Len(encs[n]) = 3 /\ fed[n] = 3
           /\ BatchesOn(n, 1) = <<InputData(n, 1)>>
           /\ BatchesOn(n, 2) = <<InputData(n, 2)>>
           /\ BatchesOn(n, 0) = <<InputData(n, 3)>>

\* the datasets node n has written to its output that node s was fed
FromSource(n, s) == SelectSeq(out[n], LAMBDA d : d[1].src = s)

\* the datasets node s was fed, in the order it sent them
FedTo(s) == [b \in 1..fed[s] |-> InputData(s, b)]

\* every node has found its inp closed and returned nil with its connections
\* closed, and no context has ended
CleanlyTerminated == InputsClosed /\ AllReturnedNil /\ ~CtxEnded

\* C8: in a broadcast run that terminates cleanly, the output of every
\* node holds every dataset fed into the input of any node, its own
\* included, exactly once, and the datasets of one source appear in each
\* output in the order that source sent them.
C8_BroadcastFanOut ==
    (exType = "broadcast" /\ CleanlyTerminated) =>
        \A n \in Participants : \A s \in Participants : FromSource(n, s) = FedTo(s)

\* C8 witness: a broadcast between two nodes has terminated cleanly after
\* one node was fed two datasets and the other node one
C8_Witness ==
    /\ exType = "broadcast" /\ CleanlyTerminated
    /\ Len(allNodes) = 2
    /\ \E s, t \in Participants : fed[s] = 2 /\ fed[t] = 1

\* every dataset fed into the input of a node of the cluster
AllFed == UNION {Range(FedTo(s)) : s \in Participants}

\* C9: in a gather run a node that is not the master never writes a
\* dataset to its output and has no decoder after init, and on clean
\* termination the output of the master holds the datasets fed into the
\* inputs of all nodes, its own included, each exactly once.
C9_GatherConvergence ==
    exType = "gather" =>
        /\ \A n \in Participants \ {masterNode} : out[n] = <<>> /\ decs[n] = <<>>
        /\ CleanlyTerminated =>
               /\ Range(out[masterNode]) = AllFed
               /\ Len(out[masterNode]) = Cardinality(AllFed)

\* C9 witness: a gather of three nodes has terminated cleanly after the
\* master and one other node were fed, and the third node returned too
C9_Witness ==
    /\ exType = "gather" /\ CleanlyTerminated
    /\ Len(allNodes) = 3
    /\ fed[masterNode] >= 1
    /\ \E n \in Participants \ {masterNode} : fed[n] = 2 /\ rcv[n] = "done"

\* the rows node n has encoded on its encoder i, each with the node that
\* sent it and the node the encoder leads to
RowsOn(n, i) ==
    IF i >= Len(encs[n]) THEN {}
    ELSE UNION {{[row |-> c.env.data[r], from |-> n, to |-> encs[n][i + 1]] :
                    r \in 1..Len(c.env.data)} :
                c \in {x \in Range(encLog[n][i]) : ~x.env.eof}}

\* the rows encoded by the nodes of the cluster
RowsEncoded == UNION {RowsOn(n, i) : n \in Participants, i \in EncIndexes}

\* the partition key of a row
KeyOf(row) == row.cols[partitionCol + 1]

\* the Encode calls of node n that carried the row: encoder, call, position
CallsWith(n, row) ==
    UNION {UNION {{<<i, k, r>> : r \in {q \in 1..Len(encLog[n][i][k].env.data) :
                                           encLog[n][i][k].env.data[q] = row}} :
                  k \in 1..Len(encLog[n][i])} :
           i \in EncIndexes}

\* how many times node n encoded the row
TimesEncoded(n, row) == Cardinality(CallsWith(n, row))

\* C10: in a partition exchange the destination of a row is a function
\* of its key and the cluster view only: every encoded row goes to the node
\* the ring of all nodes gives for its key, so rows with equal key go to the
\* same node whichever node sends them and whichever batch they arrive in;
\* and without failures every row fed is encoded exactly once, so the rows
\* each destination is sent are determined by the input and the view.
C10_PartitionDeterminism ==
    exType = "partition" =>
        /\ \A e \in RowsEncoded : e.to = RingGet(Participants, KeyOf(e.row))
        /\ \A e, f \in RowsEncoded : KeyOf(e.row) = KeyOf(f.row) => e.to = f.to
        /\ \A n \in Participants : \A b \in 1..fed[n] : \A r \in 1..3 :
               TimesEncoded(n, InputData(n, b)[r]) = 1

\* C10 witness: in a cluster of three nodes two different nodes have each
\* encoded a row with the same key, one node in two batches, and one node
\* has encoded rows for two different destinations
C10_Witness ==
    /\ exType = "partition" /\ Len(allNodes) = 3
    /\ \E e, f, g \in RowsEncoded :
           /\ KeyOf(e.row) = KeyOf(f.row) /\ KeyOf(f.row) = KeyOf(g.row)
           /\ e.from # f.from
           /\ f.from = g.from /\ f.row.b # g.row.b
    /\ \E e, f \in RowsEncoded : e.from = f.from /\ e.to # f.to

\* how many elements of the sequence s are x
Count(s, x) == Cardinality({i \in 1..Len(s) : s[i] = x})

\* the peers node n has an encoder to, and those it got a decoder from in init
EncPeers(n) == Range(encs[n]) \ {n}
DecPeers(n) == Range(ExInit(n, 0).decs) \ {n}

\* C11: during one Run init calls Connect at most once per peer address and
\* never with the address of this node, and a remote peer that is both a
\* destination and a source has a single stream: one closer in ex.conns,
\* opened by the one Connect call.
C11_NoDoubleConnect ==
    \A n \in Participants :
        /\ \A p \in NodeIds : Count(connectCalls[n], p) <= 1
        /\ Count(connectCalls[n], n) = 0
        /\ \A p \in NodeIds \ {n} : Count(conns[n], p) <= Count(connectCalls[n], p)
        /\ rcv[n] # "off" =>
               \A p \in EncPeers(n) \cap DecPeers(n) :
                   Count(conns[n], p) = 1 /\ Count(connectCalls[n], p) = 1

\* C11 witness: a node of a cluster of three has completed init with an
\* encoder and a decoder for each of the two other nodes, over two streams
C11_Witness ==
    \E n \in Participants :
        /\ rcv[n] # "off" /\ Len(allNodes) = 3
        /\ Cardinality(EncPeers(n) \cap DecPeers(n)) = 2
        /\ Len(connectCalls[n]) = 2 /\ Len(conns[n]) = 3

\* the failed Encode calls of node n (encoder, call) with eof as given: those
\* of datasets, those of the EOF message
FailedCalls(n, eof) ==
    UNION {{<<i, k>> : k \in {q \in 1..Len(encLog[n][i]) :
                                 ~encLog[n][i][q].ok /\ encLog[n][i][q].env.eof = eof}} :
           i \in EncIndexes}

FailedSends(n) == FailedCalls(n, FALSE)

FailedEofs(n) == FailedCalls(n, TRUE)

\* the errors Encode returns
IsEncodeErr(e) == e.kind = "encode" \/ e = ErrClosedPipe

\* Run has left init behind and its select loop or its deferred function runs
Looping(n) == fg[n] \in {"select", "drain"}

\* C12: Run returns the first terminal error it observes: the error of a
\* failed send, the error the receive go-routine wrote to errs, or the
\* deadline error of the context, unchanged; once it holds an error no
\* later one replaces it; an error of the EOF broadcast is never returned;
\* and the error of Close is returned only when there was no earlier error.
C12_ErrorPrecedence ==
    /\ [][\A n \in NodeIds :
            /\ (Looping(n) /\ err[n] # Nil /\ Looping(n)') => err'[n] = err[n]
            /\ (fg[n] = "select" /\ err[n] = Nil /\ Looping(n)' /\ err'[n] # Nil) =>
                  \/ IsEncodeErr(err'[n]) /\ FailedSends(n)' # FailedSends(n)
                  \/ err'[n] = held[n].err /\ rcv[n] = "errs" /\ rcv'[n] = "done"
                  \/ err'[n] = ErrDeadline /\ ctx[n] = "live" /\ ctx'[n] = "deadline"
            /\ (fg[n] = "select" /\ FailedEofs(n)' # FailedEofs(n)
                    /\ FailedSends(n)' = FailedSends(n) /\ Looping(n)') =>
                  ~IsEncodeErr(err'[n])
            /\ (fg[n] = "drain" /\ fg'[n] = "returned") =>
                  IF err[n] # Nil THEN result'[n] = err[n]
                  ELSE result'[n] = Nil \/ result'[n].kind = "close"]_vars
    /\ [](\A n \in NodeIds :
            fg[n] = "returned" =>
                /\ IsEncodeErr(result[n]) => FailedSends(n) # {}
                /\ result[n].kind = "close" => err[n] = Nil)

\* C12 witness: a Run whose deadline passed returned the deadline error,
\* though an Encode of its EOF broadcast had failed
C12_Witness ==
    \E n \in Participants :
        /\ fg[n] = "returned" /\ ctx[n] = "deadline" /\ result[n] = ErrDeadline
        /\ FailedEofs(n) # {} /\ FailedSends(n) = {}

\* no Connect, Encode or Close call was made on node n and no go-routine started
NoNetworkActivity(n) ==
    /\ connectCalls[n] = <<>> /\ conns[n] = <<>>
    /\ \A i \in EncIndexes : encLog[n][i] = <<>>
    /\ rcv[n] = "off"

\* C13: when the context lacks the distributer or one of the cluster keys
\* (all-nodes, this-node, master-node), Run returns a configuration error
\* to its caller, before any Connect call or other network activity.
C13_ConfigErrors ==
    \A n \in Participants :
        (ctxKeys # ContextKeys /\ fg[n] # "idle") =>
            /\ fg[n] = "returned" /\ result[n] \notin {Nil, NotReturned}
            /\ NoNetworkActivity(n)

\* C13 holds of a context without distributer: Run returns the error of init
C13_WithoutDistributer ==
    \A n \in Participants :
        ("distributer" \notin ctxKeys /\ fg[n] # "idle") =>
            /\ fg[n] = "returned" /\ result[n] = ErrNoDistributer
            /\ NoNetworkActivity(n)

\* with a distributer but without a cluster key Run ends in the panic
C13_PanicsWithoutClusterKey ==
    \A n \in Participants :
        ("distributer" \in ctxKeys /\ ~(ClusterKeys \subseteq ctxKeys) /\ fg[n] # "idle") =>
            fg[n] = "panicked" /\ result[n] = NotReturned /\ NoNetworkActivity(n)

\* Close was called exactly once on every closer node n has opened
ClosedOnce(n) == \A p \in NodeIds : closeCalls[n][p] = Count(conns[n], p)

\* C14: in every Run, including one whose init fails partway, the closer
\* list is traversed exactly once: no closer has Close called on it a second
\* time, and when Run has returned each closer it opened was closed once.
C14_CloseExactlyOnce ==
    \A n \in Participants :
        /\ \A p \in NodeIds : closeCalls[n][p] <= Count(conns[n], p)
        /\ fg[n] = "returned" => ClosedOnce(n)

\* C14 holds of a Run whose init succeeded
C14_OnceAfterInit ==
    \A n \in Participants :
        rcv[n] # "off" =>
            /\ \A p \in NodeIds : closeCalls[n][p] <= Count(conns[n], p)
            /\ fg[n] = "returned" => ClosedOnce(n)

\* a Run whose init failed after it opened closers has closed each twice
C14_TwiceAfterInitFailure ==
    \A n \in Participants :
        (fg[n] = "returned" /\ rcv[n] = "off") =>
            \A p \in NodeIds : closeCalls[n][p] = 2 * Count(conns[n], p)

\* C15: the foreground loop of Run never completes an iteration of its
\* select loop without having consumed an input item or the input closure,
\* a value written by the receive go-routine, or the context-done signal,
\* also after the receive go-routine has finished while the input is open.
C15_NoSpinWaits == \A n \in NodeIds : spins[n] = 0

\* the iterations that consume nothing happen only after the receive
\* go-routine has finished and before the input is closed, and change nothing
C15_SpinsOnClosedErrs ==
    [][\A n \in NodeIds :
          spins'[n] # spins[n] =>
              /\ rcv[n] = "done" /\ rcvDone[n] /\ ~sndDone[n]
              /\ fg'[n] = "select" /\ err'[n] = Nil /\ rcvDone'[n]
              /\ encLog'[n] = encLog[n] /\ fed'[n] = fed[n] /\ ctx'[n] = ctx[n]]_vars

\* the decoders init builds on node n: one for every node of the view, if
\* the node is a destination itself
DecsBuilt(n) == IF n \in Range(TargetNodes) THEN Participants ELSE {}

\* node s has signalled EOF to node n: an Encode of the EOF message on its
\* encoder to n succeeded, or it closed its end of the stream
SignalledEOF(s, n) ==
    \/ closeCalls[s][n] > 0
    \/ \E i \in 0..(Len(encs[s]) - 1) :
           /\ encs[s][i + 1] = n
           /\ \E k \in 1..Len(encLog[s][i]) : encLog[s][i][k].env.eof /\ encLog[s][i][k].ok

\* the receive go-routine of node n has written nil to errs, or is about to
ReportsCompletion(n) == rcv[n] \in {"errs", "done"} /\ held[n].err = Nil

\* C16: the receive go-routine reports clean completion only after every
\* decoder built at init has reported EOF, through the end of the stream or
\* the EOF message, and does report it once all have; a decoder that
\* reported EOF is not decoded again; and a Run whose context was not
\* canceled does not return nil before every source has signalled EOF.
C16_ReceiverCompletion ==
    /\ [](\A n \in Participants :
            rcv[n] # "off" =>
                LET built == DecsBuilt(n)
                    left == Range(decs[n])
                IN  /\ ReportsCompletion(n) => left = {}
                    /\ rcv[n] = "receive" => left # {}
                    /\ left \subseteq built
                    /\ \A s \in built \ left : SignalledEOF(s, n)
                    /\ (ReturnedNil(n) /\ ctx[n] # "canceled") => left = {})
    /\ [][\A n \in Participants :
            (rcv[n] # "off" /\ (decs'[n] # decs[n] \/ wire' # wire)) =>
                \A s \in NodeIds :
                    /\ (s \in Range(decs[n]) /\ s \notin Range(decs'[n])) =>
                           /\ \/ wire[s][n] # <<>> /\ isEOFError(Head(wire[s][n]))
                              \/ wire[s][n] = <<>> /\ StreamEnded(s, n)
                           /\ s = decs[n][NextDec(n) + 1]
                    /\ s \notin Range(decs[n]) =>
                           /\ s \notin Range(decs'[n])
                           /\ Len(wire'[s][n]) >= Len(wire[s][n])]_vars

\* C16 witness: a Run with two decoders, whose context did not end,
\* returned nil after its input had closed and both sources had sent
\* the EOF message, one of them after a dataset
C16_Witness ==
    \E n \in Participants :
        /\ ReturnedNil(n) /\ ctx[n] = "live" /\ sndDone[n]
        /\ Cardinality(DecsBuilt(n)) = 2 /\ decs[n] = <<>>
        /\ out[n] # <<>>
        /\ \A s \in DecsBuilt(n) : SignalledEOF(s, n)
        /\ \E s \in DecsBuilt(n) \ {n} : closeCalls[s][n] = 0 /\ fed[s] > 0

\* Close has been called on a closer of node n
CloseCalled(n) == \E p \in NodeIds : closeCalls[n][p] > 0

\* C17: after a successful init, on every exit path of Run, Close is
\* executed only after the receive go-routine has terminated (errs is
\* closed), so no Decode and no write to out happens during or after Close.
C17_ReapedBeforeClose ==
    /\ [](\A n \in Participants :
            (rcv[n] # "off" /\ (CloseCalled(n) \/ fg[n] = "returned")) => rcv[n] = "done")
    /\ [][\A n \in Participants :
            /\ (rcv[n] # "off" /\ closeCalls'[n] # closeCalls[n]) =>
                   rcv[n] = "done" /\ fg[n] = "drain"
            /\ (rcv[n] # "off" /\ CloseCalled(n)) =>
                   /\ out'[n] = out[n] /\ decs'[n] = decs[n] /\ rcv'[n] = rcv[n]
                   /\ \A s \in NodeIds : Len(wire'[s][n]) >= Len(wire[s][n])]_vars

\* C17 witness: a Run whose deadline passed while its receive go-routine
\* was decoding has closed its connections after the go-routine ended
C17_Witness ==
    \E n \in Participants :
        /\ fg[n] = "returned" /\ ctx[n] = "deadline" /\ rcv[n] = "done"
        /\ CloseCalled(n) /\ DecsBuilt(n) # {} /\ out[n] # <<>>

\* init failed on node n: Run has returned without starting the go-routine
InitFailed(n) == fg[n] = "returned" /\ rcv[n] = "off"

\* C18: if a Connect call fails during init, every stream and shortCircuit
\* opened earlier in that init is closed before Run returns, Run returns the
\* error of that Connect call, no receive go-routine is started and nothing
\* is encoded on any stream; Run returns a Connect error in no other case.
C18_InitFailureCleanup ==
    \A n \in Participants :
        /\ InitFailed(n) =>
               /\ connectCalls[n] # <<>>
               /\ result[n] = Err("connect", connectCalls[n][Len(connectCalls[n])])
               /\ AllClosed(n)
               /\ Cardinality(RemoteConns(n)) = Len(connectCalls[n]) - 1
               /\ \A i \in EncIndexes : encLog[n][i] = <<>>
               /\ \A p \in NodeIds : wire[n][p] = <<>>
               /\ out[n] = <<>> /\ decsNext[n] = 0
        /\ (fg[n] = "returned" /\ result[n].kind = "connect") => InitFailed(n)

\* C18 witness: init failed on a node after it had opened its shortCircuit
\* and the stream to a peer, and both are closed
C18_Witness ==
    \E n \in Participants :
        /\ InitFailed(n) /\ result[n].kind = "connect"
        /\ n \in Range(conns[n]) /\ RemoteConns(n) # {} /\ AllClosed(n)

\* the rows of data whose key the ring of all nodes gives to node p, in
\* their order in data
BatchFor(data, p) ==
    SelectSeq(data, LAMBDA row : RingGet(Participants, KeyOf(row)) = p)

\* the Encode calls with a dataset that a step makes on encoder i of node n
NewDataCalls(n, i) ==
    SelectSeq(SubSeq(encLog'[n][i], Len(encLog[n][i]) + 1, Len(encLog'[n][i])),
              LAMBDA c : ~c.env.eof)

\* a step of node n is a partition send of the dataset data
PartitionSend(n, data) ==
    /\ exType = "partition" /\ fg[n] = "select"
    /\ fed'[n] = fed[n] + 1 /\ data = InputData(n, fed'[n])

\* every encoder of node n whose destination has rows of data has one new
\* Encode call, with its batch, and the other encoders have none
AllBatchesEncoded(n, data) ==
    \A i \in EncIndexes :
        NewDataCalls(n, i) =
            IF i < Len(encs[n]) /\ BatchFor(data, encs[n][i + 1]) # <<>>
            THEN <<[env |-> Req(BatchFor(data, encs[n][i + 1])), ok |-> TRUE]>>
            ELSE <<>>

\* a key without owner in the ring: the send returns an error and makes no
\* Encode call
NoOwnerNoEncode(n) ==
    hashRing[n] = {} =>
        /\ err'[n] # Nil /\ ~IsEncodeErr(err'[n])
        /\ \A i \in EncIndexes : encLog'[n][i] = encLog[n][i]

\* C19 as claimed: every partition send encodes each non-empty batch
\* exactly once on its encoder, the rows of a batch in input order, and
\* nothing when a key has no owner.
C19_PartitionBatching ==
    [][\A n \in NodeIds : \A data \in {InputData(n, b) : b \in 1..(fed[n] + 1)} :
          PartitionSend(n, data) =>
              /\ NoOwnerNoEncode(n)
              /\ hashRing[n] # {} => AllBatchesEncoded(n, data)]_vars

\* C19 amended: every partition send places each row in the batch of the
\* ring owner of its key, in input order, and makes at most one Encode call
\* per batch, with that batch; it encodes every non-empty batch unless an
\* Encode call fails: then the failed call is the last of the send and its
\* error is returned; and it encodes nothing when a key has no owner.
C19_BatchingUpToFailure ==
    [][\A n \in NodeIds : \A data \in {InputData(n, b) : b \in 1..(fed[n] + 1)} :
          PartitionSend(n, data) =>
              /\ NoOwnerNoEncode(n)
              /\ \A i \in EncIndexes :
                     /\ Len(NewDataCalls(n, i)) <= 1
                     /\ NewDataCalls(n, i) # <<>> =>
                            /\ i < Len(encs[n])
                            /\ BatchFor(data, encs[n][i + 1]) # <<>>
                            /\ NewDataCalls(n, i)[1].env = Req(BatchFor(data, encs[n][i + 1]))
              /\ (hashRing[n] # {} /\ FailedSends(n)' = FailedSends(n)) =>
                     AllBatchesEncoded(n, data) /\ err'[n] = Nil
              /\ FailedSends(n)' # FailedSends(n) =>
                     /\ Cardinality(FailedSends(n)' \ FailedSends(n)) = 1
                     /\ IsEncodeErr(err'[n])]_vars

\* C19 witness: a partition send has encoded the first and the last row of
\* a dataset on one encoder and its second row on another
C19_Witness ==
    /\ exType = "partition"
    /\ \E n \in Participants : \E i, j \in EncIndexes :
           /\ i # j /\ encLog[n][i] # <<>> /\ encLog[n][j] # <<>>
           /\ encLog[n][i][1].ok /\ encLog[n][j][1].ok
           /\ encLog[n][i][1].env.data = <<InputData(n, 1)[1], InputData(n, 1)[3]>>
           /\ encLog[n][j][1].env.data = <<InputData(n, 1)[2]>>

\* a send on a node with an empty ring has returned the error of the ring
C19_SentOnEmptyRing ==
    /\ exType = "partition" /\ allNodes = <<>>
    /\ \E n \in Runners : fed[n] = 1 /\ err[n] = ErrNoNode /\ fg[n] = "drain"

\* a step of node n is a send of the dataset data
Sends(n, data) ==
    /\ fg[n] = "select" /\ fed'[n] = fed[n] + 1 /\ data = InputData(n, fed'[n])

\* the encoders of node n on which the Encode call of a dataset fails in a step
NewlyFailed(n) == {i \in EncIndexes : \E c \in Range(NewDataCalls(n, i)) : ~c.ok}

\* the encoders of node n on which a step calls Encode with a dataset
NewlyTried(n) == {i \in EncIndexes : NewDataCalls(n, i) # <<>>}

\* C20: the send of a gather or broadcast exchange calls Encode on every
\* encoder, also after a failure, and returns the error of the last encoder
\* that failed, nil if none did; the send of a scatter or partition exchange
\* returns the first Encode error and makes no Encode call after it.
C20_SendFailurePolicy ==
    [][\A n \in NodeIds : \A data \in {InputData(n, b) : b \in 1..(fed[n] + 1)} :
          Sends(n, data) =>
              /\ \A i \in EncIndexes : Len(NewDataCalls(n, i)) <= 1
              /\ exType \in {"gather", "broadcast"} =>
                     /\ NewlyTried(n) = 0..(Len(encs[n]) - 1)
                     /\ \A i \in NewlyTried(n) : NewDataCalls(n, i)[1].env = Req(data)
                     /\ err'[n] = IF NewlyFailed(n) = {} THEN Nil
                                  ELSE EncodeErr(n, CHOOSE i \in NewlyFailed(n) :
                                                       \A j \in NewlyFailed(n) : j <= i)
              /\ exType = "scatter" =>
                     /\ NewlyTried(n) = {NextEnc(n)}
                     /\ NewDataCalls(n, NextEnc(n))[1].env = Req(data)
              /\ exType \in {"scatter", "partition"} =>
                     /\ Cardinality(NewlyFailed(n)) <= 1
                     /\ err'[n] = IF NewlyFailed(n) = {} THEN Nil
                                  ELSE EncodeErr(n, CHOOSE i \in NewlyFailed(n) : TRUE)]_vars

\* C20 witness: in a broadcast on three nodes both Encode calls to the
\* peers failed, the shortCircuit was encoded on all the same, and the
\* error of the last encoder is the error of Run
C20_Witness ==
    /\ exType = "broadcast" /\ Len(allNodes) = 3
    /\ \E n \in Participants :
           /\ Len(encs[n]) = 3 /\ Cardinality(FailedSends(n)) = 2
           /\ \E i \in 0..2 : encs[n][i + 1] = n /\ encLog[n][i] # <<>> /\ encLog[n][i][1].ok
           /\ \E i \in 0..2 :
                  /\ \A j \in 0..2 : (encs[n][j + 1] # n) => j <= i
                  /\ err[n] = Err("encode", encs[n][i + 1])

\* the decoder of node n that follows the one tried now, cyclically
SuccessorOfTried(n) == decs[n][((NextDec(n) + 1) % Len(decs[n])) + 1]

\* a step in which the decoder tried on node n delivers a dataset and the
\* receive go-routine goes on
Delivers(n) ==
    /\ rcv[n] = "receive" /\ rcv'[n] = "receive"
    /\ decs'[n] = decs[n] /\ out'[n] # out[n]

\* a step in which the decoder tried on node n is removed on EOF and the
\* receive go-routine goes on with the remaining ones
RemovedOnEOF(n) ==
    /\ rcv[n] = "receive" /\ rcv'[n] = "receive"
    /\ decs'[n] = RemoveAt(decs[n], NextDec(n) + 1)

\* C21: decodeNext visits the active decoders in cyclic order: after a
\* decoder delivers a dataset the next decoder tried is its cyclic
\* successor, and after a decoder is removed on EOF the next decoder tried
\* is the one that followed it in the sequence, cyclically, among those
\* remaining, so that no remaining decoder is skipped.
C21_ReceiveRoundRobin ==
    [][\A n \in NodeIds :
          (Delivers(n) \/ RemovedOnEOF(n)) =>
              decs'[n][NextDec(n)' + 1] = SuccessorOfTried(n)]_vars

\* C21 holds of the steps that deliver a dataset
C21_AfterDataset ==
    [][\A n \in NodeIds :
          Delivers(n) => decs'[n][NextDec(n)' + 1] = SuccessorOfTried(n)]_vars

\* after a removal the successor is skipped only when the decoder removed
\* is the first of three or more and the cursor is at or past the last
C21_SkipsOnWrap ==
    [][\A n \in NodeIds :
          (RemovedOnEOF(n) /\ decs'[n][NextDec(n)' + 1] # SuccessorOfTried(n)) =>
              /\ NextDec(n) = 0 /\ Len(decs[n]) >= 3
              /\ decsNext[n] >= Len(decs[n]) - 1
              /\ decs'[n][NextDec(n)' + 1] = decs[n][3]]_vars

\* whether Close was called on sc before the call numbered j
ClosedBefore(j) == \E k \in 1..(j - 1) : scCalls[k].op = "Close"

\* the envelopes handed to Encode before the first Close, in order
Enqueued ==
    LET js == {j \in DOMAIN scCalls : scCalls[j].op = "Encode" /\ ~ClosedBefore(j)}
        early == SelectSeq(scCalls, LAMBDA c : c.op = "Encode")
    IN  [k \in 1..Cardinality(js) |-> early[k].env]

\* the Decode calls, in order
Decodes == SelectSeq(scCalls, LAMBDA c : c.op = "Decode")

\* C22: Decode returns the envelopes in the order Encode enqueued them;
\* Close is idempotent (every call returns nil and a later one changes
\* nothing); after Close the envelopes already enqueued are still decoded in
\* order and then Decode reports EOF, while Encode returns the closed-pipe
\* error and enqueues nothing; an EOF message dequeued by Decode is reported
\* as EOF, not handed out as data.
C22_ShortCircuitLifecycle ==
    /\ \A j \in DOMAIN scCalls :
          /\ scCalls[j].op = "Close" => scCalls[j].ret = Nil
          /\ scCalls[j].op = "Encode" =>
                scCalls[j].ret = IF ClosedBefore(j) THEN ErrClosedPipe ELSE Nil
    /\ \A k \in DOMAIN Decodes :
          IF k <= Len(Enqueued) /\ ~Enqueued[k].eof
              THEN Decodes[k].ret = Nil /\ Decodes[k].got = Enqueued[k]
              ELSE Decodes[k].ret = ErrEOF /\ Decodes[k].got = NoEnvelope
    /\ sc.C.buf = SubSeq(Enqueued, Len(Decodes) + 1, Len(Enqueued))

\* two datasets were enqueued, Close was called, a later Encode returned the
\* closed-pipe error, and three Decode calls, all made after Close, returned
\* the two datasets in order and then EOF
C22_Witness ==
    /\ Len(Enqueued) = 2 /\ Enqueued[1] # Enqueued[2]
    /\ ~Enqueued[1].eof /\ ~Enqueued[2].eof
    /\ \E j \in DOMAIN scCalls :
          /\ scCalls[j].op = "Encode" /\ ClosedBefore(j)
          /\ scCalls[j].ret = ErrClosedPipe
    /\ \A j \in DOMAIN scCalls : scCalls[j].op = "Decode" => ClosedBefore(j)
    /\ Len(Decodes) = 3
    /\ Decodes[1].got = Enqueued[1] /\ Decodes[2].got = Enqueued[2]
    /\ Decodes[3].ret = ErrEOF

\* Close was called twice and a dataset enqueued before is decoded after
C22_ClosedTwice ==
    /\ Cardinality({j \in DOMAIN scCalls : scCalls[j].op = "Close"}) >= 2
    /\ \E j \in DOMAIN scCalls :
          /\ scCalls[j].op = "Decode" /\ scCalls[j].ret = Nil
          /\ \E k, l \in 1..(j - 1) : k # l /\ scCalls[k].op = "Close"
                                           /\ scCalls[l].op = "Close"

\* an EOF message was dequeued from the open channel and reported as EOF,
\* and the dataset enqueued after it was decoded by the next call
C22_SentinelDecoded ==
    /\ \A j \in DOMAIN scCalls : scCalls[j].op # "Close"
    /\ Len(Decodes) = 2 /\ Len(Enqueued) >= 2
    /\ Enqueued[1].eof /\ Decodes[1].ret = ErrEOF
    /\ Decodes[2].ret = Nil /\ Decodes[2].got = Enqueued[2]

====
